---- MODULE Spec2Model ----
(***************************************************************************)
(* The repository-pattern data-access layer of src/main.py: the User and   *)
(* Task tables of the SQLite database behind the SQLAlchemy engine, and    *)
(* the methods of UserRepository and TaskRepository that read and write    *)
(* them, each in a session of its own.                                     *)
(***************************************************************************)
EXTENDS Integers, Sequences, FiniteSets, TLC

VARIABLES
    users,      \* the rows of table "users"
    tasks,      \* the rows of table "tasks"
    last,       \* the repository call that returned last: arguments and outcome
    pc,         \* concurrent callers: where each is inside update_user
    call,       \* concurrent callers: the arguments of the call in progress
    txn,        \* concurrent callers: the uncommitted work of each session
    commits,    \* concurrent callers: session.commit() calls of the call in progress
    cres,       \* concurrent callers: the outcome of each call
    lastWrite   \* concurrent callers: the call whose commit happened last

vars == <<users, tasks, last, pc, call, txn, commits, cres, lastWrite>>

dbvars == <<users, tasks>>

concvars == <<pc, call, txn, commits, cres, lastWrite>>

--------------------------------------------------------------------------
(* Bounds of the model. *)

(* The rows the two tables hold together. *)
MaxRows == 3

--------------------------------------------------------------------------
(* Python's None and optional values: None is <<>>, a value v is <<v>>. *)

None == <<>>

Some(v) == <<v>>

NoError == "none"

IntegrityError == "IntegrityError"

(* The values the callers pass; the first of each are the driver's. *)
EmailList == <<"john.doe@example.com", "john2.doe@example.com",
               "john3.doe@example.com">>

Emails == {EmailList[i] : i \in DOMAIN EmailList}

Names == {"John Doe"}

Ages == {30, 111}

Titles == {"Buy groceries"}

Descriptions == {"Buy groceries"}

Completeds == {FALSE}

IdInputs == {1, 2, 3}

UserIdInputs == {None} \cup {Some(i) : i \in IdInputs}

--------------------------------------------------------------------------
(* The schema. *)

(* create_engine("sqlite:///example.db") with no PRAGMA foreign_keys=ON:   *)
(* SQLite parses the FOREIGN KEY clause and does not enforce it.           *)
ForeignKeysEnforced == FALSE

(* Task.user_id is Mapped[int], not Mapped[Optional[int]]: the column is   *)
(* created NOT NULL.                                                       *)
UserIdNullable == FALSE

MaxOf(S) == CHOOSE m \in S : \A x \in S : x <= m

(* An INTEGER PRIMARY KEY column left out of the INSERT is SQLite's rowid: *)
(* one more than the largest in the table, 1 in an empty table.            *)
NextRowId(rows) ==
    IF rows = {} THEN 1 ELSE MaxOf({r.id : r \in rows}) + 1

(* The table without the unique index on email: the primary key alone. *)
UserConflictPrimaryKeyOnly(others, row) ==
    \E r \in others : r.id = row.id

(* The primary key and the unique index on email, checked for one row      *)
(* against the other rows of the table.                                    *)
UserConflict(others, row) ==
    \E r \in others : r.id = row.id \/ r.email = row.email

(* The constraints of table "tasks" on a row to insert. *)
TaskViolation(us, row) ==
    \/ row.user_id = None /\ ~UserIdNullable
    \/ /\ ForeignKeysEnforced
       /\ row.user_id # None
       /\ ~\E u \in us : Some(u.id) = row.user_id

--------------------------------------------------------------------------
(* Queries. *)

RECURSIVE SortedRows(_)
(* Rows in storage (rowid) order. *)
SortedRows(S) ==
    IF S = {} THEN <<>>
    ELSE LET m == CHOOSE r \in S : \A q \in S : r.id <= q.id
         IN <<m>> \o SortedRows(S \ {m})

UserField(u, k) ==
    CASE k = "id" -> u.id
      [] k = "name" -> u.name
      [] k = "email" -> u.email
      [] k = "age" -> u.age

TaskField(t, k) ==
    CASE k = "id" -> t.id
      [] k = "title" -> t.title
      [] k = "user_id" -> t.user_id

(* filter_by of a mapping: every key of the mapping equals the column. A   *)
(* mapping is a sequence of <<key, value>> pairs.                          *)
UserMatches(u, filter) ==
    \A i \in DOMAIN filter : UserField(u, filter[i][1]) = filter[i][2]

TaskMatches(t, filter) ==
    \A i \in DOMAIN filter : TaskField(t, filter[i][1]) = filter[i][2]

(* The join written on the wrong column: tasks.id instead of tasks.user_id. *)
JoinedLoadOnTaskId(u, ts) ==
    [id |-> u.id, name |-> u.name, email |-> u.email, age |-> u.age,
     tasks |-> SortedRows({t \in ts : t.id = u.id})]

(* joinedload(User.tasks): LEFT OUTER JOIN tasks ON users.id = tasks.user_id; *)
(* a NULL user_id equals no id.                                            *)
JoinedLoad(u, ts) ==
    [id |-> u.id, name |-> u.name, email |-> u.email, age |-> u.age,
     tasks |-> SortedRows({t \in ts : t.user_id = Some(u.id)})]

QueryUsers(us, filter) == SortedRows({u \in us : UserMatches(u, filter)})

(* .first() *)
First(seq) == IF seq = <<>> THEN None ELSE Some(Head(seq))

get_user(us, ts, filter) ==
    LET found == First(QueryUsers(us, filter))
    IN IF found = None THEN None ELSE Some(JoinedLoad(found[1], ts))

get_users(us, ts, filter) ==
    LET found == QueryUsers(us, filter)
    IN [i \in DOMAIN found |-> JoinedLoad(found[i], ts)]

get_task(ts, filter) == First(SortedRows({t \in ts : TaskMatches(t, filter)}))

(* join() in place of outerjoin(): a user without tasks has no joined row. *)
InnerJoin(us, ts) ==
    {p \in {<<u, Some(t)>> : u \in us, t \in ts} : p[2][1].user_id = Some(p[1].id)}

(* users LEFT OUTER JOIN tasks: a pair for every task of the user, and one *)
(* pair with a NULL task for a user without tasks.                         *)
OuterJoin(us, ts) ==
    {p \in {<<u, Some(t)>> : u \in us, t \in ts} : p[2][1].user_id = Some(p[1].id)}
    \cup {<<u, None>> : u \in {v \in us : ~\E t \in ts : t.user_id = Some(v.id)}}

(* func.count() over the joined rows, the NULL task of a user without      *)
(* tasks counted like any other.                                           *)
CountJoinedRows(group) == Cardinality(group)

(* func.count(Task.id) over one group: the joined rows whose Task.id is    *)
(* not NULL.                                                               *)
CountTaskId(group) == Cardinality({p \in group : p[2] # None})

(* GROUP BY users.id, one result row (id, name, tasks_count) per group. *)
get_users_tasks_count(us, ts) ==
    LET joined == OuterJoin(us, ts)
        keys == {p[1] : p \in joined}
        grouped == SortedRows(keys)
    IN [i \in DOMAIN grouped |->
          <<grouped[i].id, grouped[i].name,
            CountTaskId({p \in joined : p[1].id = grouped[i].id})>>]

--------------------------------------------------------------------------
(* Writes. Each runs in the transaction of its own session: the statement  *)
(* works on the session's copy of the table, commit() installs the copy,   *)
(* rollback() drops it.                                                    *)

SetField(u, k, v) ==
    CASE k = "id" -> [u EXCEPT !.id = v]
      [] k = "name" -> [u EXCEPT !.name = v]
      [] k = "email" -> [u EXCEPT !.email = v]
      [] k = "age" -> [u EXCEPT !.age = v]

RECURSIVE ApplyKwargs(_, _)
(* SET column = value for every key of kwargs. *)
ApplyKwargs(u, kwargs) ==
    IF kwargs = <<>> THEN u
    ELSE ApplyKwargs(SetField(u, Head(kwargs)[1], Head(kwargs)[2]), Tail(kwargs))

(* session.add(User(...)) and the INSERT that commit() flushes. *)
InsertUser(us, name, email, age) ==
    LET row == [id |-> NextRowId(us), name |-> name, email |-> email, age |-> age]
    IN IF UserConflict(us, row)
       THEN [dberr |-> IntegrityError, rows |-> us, row |-> row]
       ELSE [dberr |-> NoError, rows |-> us \cup {row}, row |-> row]

RECURSIVE UpdateRows(_, _, _)
(* One UPDATE statement: the matched rows are rewritten one after the      *)
(* other in storage order, each checked against the table as it then is;   *)
(* the first violation stops the statement with the rows rewritten so far. *)
UpdateRows(rows, matched, kwargs) ==
    IF matched = <<>> THEN [dberr |-> NoError, rows |-> rows]
    ELSE LET old == Head(matched)
             new == ApplyKwargs(old, kwargs)
             others == rows \ {old}
         IN IF UserConflict(others, new)
            THEN [dberr |-> IntegrityError, rows |-> rows]
            ELSE UpdateRows(others \cup {new}, Tail(matched), kwargs)

(* The UPDATE never sent: the query is built and no row is written. *)
UpdateStmtNotExecuted(us, filter, kwargs) == [dberr |-> NoError, rows |-> us]

(* session.query(User).filter_by(...).update(kwargs) *)
UpdateStmt(us, filter, kwargs) == UpdateRows(us, QueryUsers(us, filter), kwargs)

(* session.add(Task(...)) and the INSERT that commit() flushes. *)
InsertTask(us, ts, title, description, completed, user_id) ==
    LET row == [id |-> NextRowId(ts), title |-> title, description |-> description,
                completed |-> completed, user_id |-> user_id]
    IN IF TaskViolation(us, row)
       THEN [dberr |-> IntegrityError, rows |-> ts, row |-> row]
       ELSE [dberr |-> NoError, rows |-> ts \cup {row}, row |-> row]

(* The commit left out: the session closes and its work is lost. *)
CommitDropsWork(before, work) == before

(* session.commit(): the session's work becomes the table. *)
Commit(before, work) == work

(* commit() in the except branch: what the failed statement had written   *)
(* stays.                                                                  *)
RollbackKeepsWork(before, work) == work

(* except Exception: session.rollback(): the table is as before the call. *)
Rollback(before, work) == before

(* raise e *)
Reraise(e) == e

(* The table after the try/except of a mutating method. *)
Outcome(before, stmt) ==
    IF stmt.dberr = NoError THEN Commit(before, stmt.rows)
    ELSE Rollback(before, stmt.rows)

--------------------------------------------------------------------------
(* The arguments callers pass. *)

UserFilters ==
    {<<>>} \cup {<<<<"id", i>>>> : i \in IdInputs}
           \cup {<<<<"email", e>>>> : e \in Emails}
           \cup {<<<<"age", a>>>> : a \in Ages}

UserKwargs ==
    {<<<<"age", a>>>> : a \in Ages}
        \cup {<<<<"email", e>>>> : e \in Emails}
        \cup {<<<<"id", i>>>> : i \in IdInputs}

TaskFilters ==
    {<<>>} \cup {<<<<"id", i>>>> : i \in {1, 2}}

--------------------------------------------------------------------------
(* The repository methods, one call each. *)

NoCall == [op |-> "none"]

Init ==
    /\ users = {}
    /\ tasks = {}
    /\ last = NoCall
    /\ pc = <<>>
    /\ call = <<>>
    /\ txn = <<>>
    /\ commits = <<>>
    /\ cres = <<>>
    /\ lastWrite = None

create_user(name, email, age) ==
    LET stmt == InsertUser(users, name, email, age)
    IN /\ last = NoCall
       /\ stmt.dberr # NoError \/ Cardinality(users) + Cardinality(tasks) < MaxRows
       /\ users' = Outcome(users, stmt)
       /\ last' = [op |-> "create_user",
                   args |-> [name |-> name, email |-> email, age |-> age],
                   result |-> IF stmt.dberr = NoError THEN Some(stmt.row) ELSE None,
                   dberr |-> stmt.dberr,
                   err |-> Reraise(stmt.dberr)]
       /\ UNCHANGED <<tasks, concvars>>

get_user_call(filter) ==
    /\ last = NoCall
    /\ last' = [op |-> "get_user", args |-> [filter_by |-> filter],
                result |-> get_user(users, tasks, filter),
                dberr |-> NoError, err |-> NoError]
    /\ UNCHANGED <<dbvars, concvars>>

get_users_call(filter) ==
    /\ last = NoCall
    /\ last' = [op |-> "get_users", args |-> [filter_by |-> filter],
                result |-> get_users(users, tasks, filter),
                dberr |-> NoError, err |-> NoError]
    /\ UNCHANGED <<dbvars, concvars>>

update_user(filter, kwargs) ==
    LET stmt == UpdateStmt(users, filter, kwargs)
        after == Outcome(users, stmt)
    IN /\ last = NoCall
       /\ users' = after
       /\ last' = [op |-> "update_user",
                   args |-> [filter_by |-> filter, kwargs |-> kwargs],
                   result |-> IF stmt.dberr = NoError
                              THEN get_user(after, tasks, filter) ELSE None,
                   dberr |-> stmt.dberr,
                   err |-> Reraise(stmt.dberr)]
       /\ UNCHANGED <<tasks, concvars>>

get_users_tasks_count_call ==
    /\ last = NoCall
    /\ last' = [op |-> "get_users_tasks_count", args |-> <<>>,
                result |-> get_users_tasks_count(users, tasks),
                dberr |-> NoError, err |-> NoError]
    /\ UNCHANGED <<dbvars, concvars>>

create_task(title, description, completed, user_id) ==
    LET stmt == InsertTask(users, tasks, title, description, completed, user_id)
    IN /\ last = NoCall
       /\ stmt.dberr # NoError \/ Cardinality(users) + Cardinality(tasks) < MaxRows
       /\ tasks' = Outcome(tasks, stmt)
       /\ last' = [op |-> "create_task",
                   args |-> [title |-> title, description |-> description,
                             completed |-> completed, user_id |-> user_id],
                   result |-> IF stmt.dberr = NoError THEN Some(stmt.row) ELSE None,
                   dberr |-> stmt.dberr,
                   err |-> Reraise(stmt.dberr)]
       /\ UNCHANGED <<users, concvars>>

get_task_call(filter) ==
    /\ last = NoCall
    /\ last' = [op |-> "get_task", args |-> [filter_by |-> filter],
                result |-> get_task(tasks, filter),
                dberr |-> NoError, err |-> NoError]
    /\ UNCHANGED <<dbvars, concvars>>

(* The caller is done with what the call returned and is free to make the  *)
(* next call.                                                              *)
Return ==
    /\ last # NoCall
    /\ last' = NoCall
    /\ UNCHANGED <<dbvars, concvars>>

Next ==
    \/ \E n \in Names, e \in Emails, a \in Ages : create_user(n, e, a)
    \/ \E f \in UserFilters : get_user_call(f)
    \/ \E f \in UserFilters : get_users_call(f)
    \/ \E f \in UserFilters, k \in UserKwargs : update_user(f, k)
    \/ get_users_tasks_count_call
    \/ \E t \in Titles, d \in Descriptions, c \in Completeds, u \in UserIdInputs :
          create_task(t, d, c, u)
    \/ \E f \in TaskFilters : get_task_call(f)
    \/ Return

Spec == Init /\ [][Next]_vars

--------------------------------------------------------------------------
(* Two callers inside update_user at the same time, each in the session    *)
(* get_session() gave it, on the database the driver has filled.           *)

Callers == {"A", "B"}

(* user1, user2, user3 of the driver. *)
DriverUsers ==
    LET u1 == InsertUser({}, "John Doe", EmailList[1], 30).rows
        u2 == InsertUser(u1, "John Snow", EmailList[2], 33).rows
    IN InsertUser(u2, "John 3", EmailList[3], 11).rows

(* The driver's task, owned by user1. *)
DriverTasks ==
    InsertTask(DriverUsers, {}, "Buy groceries", "Buy groceries", FALSE, Some(1)).rows

ConcFilters == {<<>>, <<<<"id", 1>>>>, <<<<"id", 2>>>>}

ConcKwargs == {<<<<"age", a>>>> : a \in Ages} \cup {<<<<"email", EmailList[1]>>>>}

InitConc ==
    /\ users = DriverUsers
    /\ tasks = DriverTasks
    /\ last = NoCall
    /\ pc = [c \in Callers |-> "idle"]
    /\ call = [c \in Callers |-> None]
    /\ txn = [c \in Callers |-> None]
    /\ commits = [c \in Callers |-> 0]
    /\ cres = [c \in Callers |-> None]
    /\ lastWrite = None

(* SQLite lets one connection at a time hold the write lock of the file,   *)
(* from its first write to its commit or rollback; another writer waits.   *)
WriteLockFree(c) == \A d \in Callers \ {c} : txn[d] = None

(* update_user is entered: with get_session() as session. *)
Begin(c, filter, kwargs) ==
    /\ pc[c] = "idle"
    /\ pc' = [pc EXCEPT ![c] = "begun"]
    /\ call' = [call EXCEPT ![c] = Some([filter_by |-> filter, kwargs |-> kwargs])]
    /\ commits' = [commits EXCEPT ![c] = 0]
    /\ cres' = [cres EXCEPT ![c] = None]
    /\ UNCHANGED <<dbvars, last, txn, lastWrite>>

(* session.query(User).filter_by(...).update(kwargs) goes through. *)
ExecUpdate(c) ==
    /\ pc[c] = "begun"
    /\ WriteLockFree(c)
    /\ LET stmt == UpdateStmt(users, call[c][1].filter_by, call[c][1].kwargs)
       IN /\ stmt.dberr = NoError
          /\ txn' = [txn EXCEPT ![c] = Some(stmt.rows)]
    /\ pc' = [pc EXCEPT ![c] = "updated"]
    /\ UNCHANGED <<dbvars, last, call, commits, cres, lastWrite>>

(* The UPDATE raises: session.rollback() and raise e. *)
ExecUpdateRaises(c) ==
    /\ pc[c] = "begun"
    /\ WriteLockFree(c)
    /\ LET stmt == UpdateStmt(users, call[c][1].filter_by, call[c][1].kwargs)
       IN /\ stmt.dberr # NoError
          /\ users' = Rollback(users, stmt.rows)
          /\ cres' = [cres EXCEPT ![c] = Some([result |-> None,
                                               err |-> Reraise(stmt.dberr)])]
    /\ pc' = [pc EXCEPT ![c] = "done"]
    /\ UNCHANGED <<tasks, last, call, txn, commits, lastWrite>>

(* session.commit() *)
CommitUpdate(c) ==
    /\ pc[c] = "updated"
    /\ users' = Commit(users, txn[c][1])
    /\ txn' = [txn EXCEPT ![c] = None]
    /\ commits' = [commits EXCEPT ![c] = @ + 1]
    /\ lastWrite' = Some([by |-> c,
                          ids |-> {u.id : u \in {v \in users :
                                      UserMatches(v, call[c][1].filter_by)}},
                          kwargs |-> call[c][1].kwargs])
    /\ pc' = [pc EXCEPT ![c] = "committed"]
    /\ UNCHANGED <<tasks, last, call, cres>>

(* return session.query(User).filter_by(...).options(joinedload).first() *)
Requery(c) ==
    /\ pc[c] = "committed"
    /\ cres' = [cres EXCEPT ![c] =
                  Some([result |-> get_user(users, tasks, call[c][1].filter_by),
                        err |-> NoError])]
    /\ pc' = [pc EXCEPT ![c] = "done"]
    /\ UNCHANGED <<dbvars, last, call, txn, commits, lastWrite>>

(* The caller has the result and may call again. *)
Returned(c) ==
    /\ pc[c] = "done"
    /\ pc' = [pc EXCEPT ![c] = "idle"]
    /\ UNCHANGED <<dbvars, last, call, txn, commits, cres, lastWrite>>

NextConc ==
    \/ \E c \in Callers, f \in ConcFilters, k \in ConcKwargs : Begin(c, f, k)
    \/ \E c \in Callers : ExecUpdate(c)
    \/ \E c \in Callers : ExecUpdateRaises(c)
    \/ \E c \in Callers : CommitUpdate(c)
    \/ \E c \in Callers : Requery(c)
    \/ \E c \in Callers : Returned(c)

SpecConc == InitConc /\ [][NextConc]_vars

--------------------------------------------------------------------------
(* Properties of the repository calls. In each, "last" is the call that    *)
(* has just returned and users, tasks are the tables it left.              *)

Called(op) == last.op = op

Succeeded(op) == last.op = op /\ last.err = NoError

(* The step is a call of op, returning in the primed state. *)
Calls(op) == last = NoCall /\ last'.op = op

IsFilter(f, key) == Len(f) = 1 /\ f[1][1] = key

ById(i) == <<<<"id", i>>>>

ByEmail(e) == <<<<"email", e>>>>

TasksOf(u) == {t \in tasks : t.user_id = Some(u.id)}

RECURSIVE SumCounts(_)
SumCounts(rows) ==
    IF rows = <<>> THEN 0 ELSE Head(rows)[3] + SumCounts(Tail(rows))

(* C1: create_user with an email a persisted User already has fails with   *)
(* the storage layer's constraint violation, surfaced to the caller, and   *)
(* persists nothing: get_users() returns the same before and after.        *)
C1_DuplicateEmailRejected ==
    [][(Calls("create_user") /\ \E u \in users : u.email = last'.args.email)
         => /\ last'.err = IntegrityError
            /\ last'.result = None
            /\ users' = users
            /\ get_users(users', tasks', <<>>) = get_users(users, tasks, <<>>)]_vars

C1_Witness ==
    /\ Called("create_user")
    /\ last.err = IntegrityError
    /\ \E u \in users : u.email = last.args.email
    /\ Cardinality(users) >= 1

(* C2: get_users_tasks_count() returns exactly one row (id, name, count)   *)
(* for every persisted User, the count being the number of persisted Tasks *)
(* whose user_id is the User's id, 0 for a User without tasks.             *)
C2_OneCountRowPerUser ==
    Called("get_users_tasks_count") =>
        /\ Len(last.result) = Cardinality(users)
        /\ \A u \in users :
             /\ Cardinality({i \in DOMAIN last.result : last.result[i][1] = u.id}) = 1
             /\ \E i \in DOMAIN last.result :
                  last.result[i] = <<u.id, u.name, Cardinality(TasksOf(u))>>

C2_Witness ==
    /\ Called("get_users_tasks_count")
    /\ \E i \in DOMAIN last.result : last.result[i][3] = 0
    /\ \E i \in DOMAIN last.result : last.result[i][3] >= 1

(* C3: update_user(filter_by={"id": X}, age=V) on an existing id returns   *)
(* the User with id X and age V and the persisted row has age V; on an id  *)
(* no User has it returns None and modifies no row.                        *)
C3_UpdateAgeById ==
    [][(/\ Calls("update_user")
        /\ IsFilter(last'.args.filter_by, "id")
        /\ IsFilter(last'.args.kwargs, "age"))
         => LET X == last'.args.filter_by[1][2]
                V == last'.args.kwargs[1][2]
            IN IF \E u \in users : u.id = X
               THEN /\ last'.err = NoError
                    /\ last'.result # None
                    /\ last'.result[1].id = X
                    /\ last'.result[1].age = V
                    /\ \E u \in users' : u.id = X /\ u.age = V
                    /\ \A u \in users' : u.id # X => u \in users
               ELSE /\ last'.err = NoError
                    /\ last'.result = None
                    /\ users' = users
                    /\ tasks' = tasks]_vars

C3_Witness ==
    /\ Succeeded("update_user")
    /\ IsFilter(last.args.filter_by, "id")
    /\ IsFilter(last.args.kwargs, "age")
    /\ last.result # None
    /\ last.result[1].age = last.args.kwargs[1][2]
    /\ Cardinality(users) >= 2

(* C4: after create_task(..., user_id=U) succeeds for a persisted User     *)
(* with id U, get_user({"id": U}) returns that User and its tasks contain  *)
(* the new Task.                                                           *)
C4_NewTaskInOwnersTasks ==
    (/\ Succeeded("create_task")
     /\ last.args.user_id # None
     /\ \E u \in users : Some(u.id) = last.args.user_id)
        => LET U == last.args.user_id[1]
               got == get_user(users, tasks, ById(U))
           IN /\ got # None
              /\ got[1].id = U
              /\ \E i \in DOMAIN got[1].tasks : got[1].tasks[i] = last.result[1]

C4_Witness ==
    /\ Succeeded("create_task")
    /\ last.args.user_id # None
    /\ \E u \in users : Some(u.id) = last.args.user_id /\ u.id # last.result[1].id

(* C5: create_user(name, email, age) with an email not in use, followed by *)
(* get_user({"email": email}), returns a User with the name, email and age *)
(* passed, the id create_user returned, and no tasks.                      *)
C5_CreatedUserReadBack ==
    Succeeded("create_user") =>
        LET got == get_user(users, tasks, ByEmail(last.args.email))
        IN /\ got # None
           /\ got[1].name = last.args.name
           /\ got[1].email = last.args.email
           /\ got[1].age = last.args.age
           /\ got[1].id = last.result[1].id
           /\ got[1].tasks = <<>>

(* C6: a mutating call that fails re-signals the storage layer's error and *)
(* leaves the persisted Users and Tasks as they were before the call; an   *)
(* update_user over several matched rows that fails updates none of them.  *)
C6_AllOrNothing ==
    [][(/\ last = NoCall
        /\ last'.op \in {"create_user", "update_user", "create_task"}
        /\ last'.dberr # NoError)
         => /\ last'.err = last'.dberr
            /\ last'.result = None
            /\ users' = users
            /\ tasks' = tasks]_vars

C6_Witness ==
    /\ Called("update_user")
    /\ last.err = IntegrityError
    /\ IsFilter(last.args.kwargs, "email")
    /\ Cardinality({u \in users : UserMatches(u, last.args.filter_by)}) >= 2
    /\ \A u \in users : u.email # last.args.kwargs[1][2]

(* C7: no repository call changes the id of a persisted User, and no two   *)
(* Users share an id. Users are never deleted, so an id that is gone from  *)
(* the table is an id that was changed.                                    *)
C7_UserIdImmutable ==
    [][/\ {u.id : u \in users} \subseteq {u.id : u \in users'}
       /\ \A u, v \in users' : u.id = v.id => u = v]_vars

(* C8: of two update_user calls running at the same time in sessions of    *)
(* their own, neither is rejected, each commits exactly once, and every    *)
(* row matched by the call that committed last holds the values that call  *)
(* wrote.                                                                  *)
C8_LastWriteWins ==
    /\ \A c \in Callers :
         /\ commits[c] <= 1
         /\ (pc[c] \in {"committed", "done"} /\ IsFilter(call[c][1].kwargs, "age"))
               => /\ commits[c] = 1
                  /\ pc[c] = "done" => cres[c][1].err = NoError
    /\ lastWrite # None =>
         \A u \in users :
            u.id \in lastWrite[1].ids =>
               UserField(u, lastWrite[1].kwargs[1][1]) = lastWrite[1].kwargs[1][2]

C8_Witness ==
    /\ pc["A"] = "committed"
    /\ pc["B"] = "committed"
    /\ call["A"][1].filter_by = call["B"][1].filter_by
    /\ IsFilter(call["A"][1].kwargs, "age")
    /\ IsFilter(call["B"][1].kwargs, "age")
    /\ call["A"][1].kwargs[1][2] # call["B"][1].kwargs[1][2]
    /\ lastWrite[1].by = "B"
    /\ Cardinality(lastWrite[1].ids) >= 2
    /\ \A u \in users : u.id \in lastWrite[1].ids => u.age = call["B"][1].kwargs[1][2]

C10_UnownedTaskCreated ==
    (Called("create_task") /\ last.args.user_id = None) =>
        /\ last.err = NoError
        /\ last.result # None
        /\ last.result[1].user_id = None
        /\ get_task(tasks, ById(last.result[1].id)) = last.result
        /\ \A u \in users : last.result[1] \notin TasksOf(u)

====
